---------------------------- MODULE Spec2Model ----------------------------
(***************************************************************************)
(* A model of the ioTube witness-service transfer recorder                 *)
(* (witness/recorder.go) and of the IoTeX validator driver                 *)
(* (relayer/transfervalidatoroniotex.go), with its lock, and of the        *)
(* service loop that drives both.                                          *)
(*                                                                         *)
(* Every SQL statement the recorder executes is one atomic step of the     *)
(* database (InnoDB, single statement), so every recorder method is one    *)
(* action.  The value a method returns is recorded in the variable `last`. *)
(***************************************************************************)
EXTENDS Integers, Sequences, FiniteSets, TLC

VARIABLES
  store,      \* the transfer table: a function from the primary keys present to rows
  now,        \* the database clock behind CURRENT_TIMESTAMP
  last,       \* the last recorder call: its name, argument and result
  chainItems, \* the witness-list contract: its items, each active or not
  witnesses,  \* tv.witnesses, the driver's cache of the active witnesses
  dlast,      \* the last driver call: its name, arguments and result
  sigs,       \* the witness table: the witnesses that signed each transfer
  pc,         \* where each execution of the service loop stands
  queue,      \* the transfers each execution still has to handle in its phase
  sent,       \* history: the first submissions broadcast for each key
  attempts,   \* history: the conditional updates the loop called for each key
  submission, \* the nonce, gasPrice and destination txHash stored with each transfer
  ret,        \* what the driver returned to each execution of the loop
  confirmedInTick, \* history: the transfers each execution confirmed in its tick
  mu,         \* tv.mu, the driver's sync.RWMutex
  th          \* where each thread calling the driver stands

recorderVars == <<store, now, last>>

driverVars == <<chainItems, witnesses, dlast>>

serviceVars == <<sigs, pc, queue, sent, attempts, submission, ret, confirmedInTick>>

lockVars == <<mu, th>>

vars == <<store, now, last, chainItems, witnesses, dlast, sigs, pc, queue, sent, attempts,
          submission, ret, confirmedInTick, mu, th>>

-----------------------------------------------------------------------------
(* Bounds of the model. *)

\* the database clock runs over 0..MaxClock
MaxClock == 1
\* at most MaxRows rows are inserted
MaxRows == 2

\* Submit and SpeedUp are handed at most MaxSigs witness signatures
MaxSigs == 3

\* at most MaxSent first submissions are broadcast for one transfer
MaxSent == 2

\* the witness-list contract holds ChainLen items: more than one page of refresh
ChainLen == 11

(* math.MaxInt64, scaled to the width of the model checker's integers: the *)
(* code compares an index with MaxInt64-1 for equality only.               *)
MaxInt64 == 2147483647

-----------------------------------------------------------------------------
(* Values. *)

TransferNew == "new"
SubmissionConfirmed == "confirmed"
TransferSettled == "settled"

\* the SQL NULL of the nullable column `id`
NULL == "NULL"
\* common.Hash{}.Hex() of a transfer whose id was never set
ZeroHash == "0x00"
Ids == {ZeroHash, "0x01"}

Cashiers == {"c1"}
Tokens == {"t1", "t2"}
\* recorder.tokenPairs: the whitelist of source tokens with their co-tokens
tokenPairs == [t \in {"t1"} |-> "co1"]
\* the transfer indexes offered to the recorder (besides MaxInt64-1)
Tidxs == {1, 2}

\* A Transfer value handed to AddTransfer.  Only the key, the amount's sign
\* and the index are inspected; sender, recipient and txHash are stored as
\* they come, so they vary together.
Variant(c, t, i, a, m, h) ==
  [cashier |-> c, token |-> t, index |-> i, sender |-> a, recipient |-> a,
   amount |-> m, blockHeight |-> h, txHash |-> a, id |-> ZeroHash]

\* Every key is offered with one event; the key (c1, t1, 1) is offered with a
\* second, different event too, with amounts that are not positive, and the
\* indexes MaxInt64-1 and MaxInt64 are offered once each.
TransferInputs ==
  { Variant(c, t, i, "a1", 1, i) : c \in Cashiers, t \in Tokens, i \in Tidxs }
  \cup { Variant("c1", "t1", 1, "a2", m, 2) : m \in {-1, 0, 2} }
  \cup { Variant("c1", "t1", i, "a1", 1, 1) : i \in {MaxInt64 - 1, MaxInt64} }

\* The Transfer values handed to the status mutators: a key and an id.  The
\* key (c1, t1, 1) is offered with two different ids.
MutatorInputs ==
  { [cashier |-> c, token |-> t, index |-> i, id |-> "0x01"] :
       c \in Cashiers, t \in Tokens, i \in Tidxs }
  \cup { [cashier |-> "c1", token |-> "t1", index |-> 1, id |-> ZeroHash] }

Keys == Cashiers \X Tokens \X Tidxs

KeyOf(tx) == <<tx.cashier, tx.token, tx.index>>

NoCall == [op |-> "none", tx |-> [id |-> NULL], err |-> "nil", affected |-> 0,
           rows |-> <<>>, height |-> 0, scan |-> "nil", cut |-> FALSE, reason |-> ""]

\* What row.Scan of TipHeight returns: nil, or an error when the database
\* does not answer the query.
ScanOutcomes == {"nil", "error"}

-----------------------------------------------------------------------------
(* Recorder. *)

Min(a, b) == IF a < b THEN a ELSE b

\* validateID: panics on the index MaxInt64-1, accepts every other index.
validateID(id) == IF id = MaxInt64 - 1 THEN "panic" ELSE "nil"

\* validateResult with the test for too many rows only.
validateResultAtMostOne(affected) == IF affected > 1 THEN "rows" ELSE "nil"

\* validateResult: a statement that did not change exactly one row is an error.
validateResult(affected) == IF affected # 1 THEN "rows" ELSE "nil"

\* The row INSERT writes: status and id take their column defaults.
NewRow(tx) ==
  [sender |-> tx.sender, recipient |-> tx.recipient, amount |-> tx.amount,
   blockHeight |-> tx.blockHeight, txHash |-> tx.txHash,
   status |-> TransferNew, id |-> NULL, creationTime |-> now]

\* REPLACE INTO instead of INSERT IGNORE: the row of an existing key is overwritten.
InsertReplace(tx) == (KeyOf(tx) :> NewRow(tx)) @@ store

\* INSERT IGNORE: a row whose primary key exists is left alone.
InsertIgnore(tx) ==
  IF KeyOf(tx) \in DOMAIN store THEN store ELSE (KeyOf(tx) :> NewRow(tx)) @@ store

\* AddTransfer whose amount test refuses negative amounts only.
AddTransferNegativeOnly(tx) ==
  /\ KeyOf(tx) \in DOMAIN store \/ Cardinality(DOMAIN store) < MaxRows
  /\ IF validateID(tx.index) # "nil"
       THEN /\ last' = [NoCall EXCEPT !.op = "AddTransfer", !.tx = tx, !.err = "panic"]
            /\ UNCHANGED store
       ELSE IF tx.amount < 0
         THEN /\ last' = [NoCall EXCEPT !.op = "AddTransfer", !.tx = tx, !.err = "amount"]
              /\ UNCHANGED store
         ELSE /\ store' = InsertIgnore(tx)
              /\ last' = [NoCall EXCEPT !.op = "AddTransfer", !.tx = tx, !.err = "nil",
                            !.affected = IF KeyOf(tx) \in DOMAIN store THEN 0 ELSE 1]
  /\ UNCHANGED now

\* AddTransfer creates a new transfer record.
AddTransfer(tx) ==
  /\ KeyOf(tx) \in DOMAIN store \/ Cardinality(DOMAIN store) < MaxRows
  /\ IF validateID(tx.index) # "nil"
       THEN /\ last' = [NoCall EXCEPT !.op = "AddTransfer", !.tx = tx, !.err = "panic"]
            /\ UNCHANGED store
       ELSE IF tx.amount <= 0
         THEN /\ last' = [NoCall EXCEPT !.op = "AddTransfer", !.tx = tx, !.err = "amount"]
              /\ UNCHANGED store
         ELSE /\ store' = InsertIgnore(tx)
              /\ last' = [NoCall EXCEPT !.op = "AddTransfer", !.tx = tx, !.err = "nil",
                            !.affected = IF KeyOf(tx) \in DOMAIN store THEN 0 ELSE 1]
  /\ UNCHANGED now

\* The UPDATE without `id`=? in its SET clause.
UpdateWhereStatusOnly(tx, from, to, setId) ==
  IF KeyOf(tx) \in DOMAIN store /\ store[KeyOf(tx)].status = from
    THEN [store EXCEPT ![KeyOf(tx)] = [@ EXCEPT !.status = to]]
    ELSE store

\* UPDATE ... SET status=to [, id=tx.id] WHERE key AND status=from
UpdateWhere(tx, from, to, setId) ==
  IF KeyOf(tx) \in DOMAIN store /\ store[KeyOf(tx)].status = from
    THEN [store EXCEPT ![KeyOf(tx)] =
            [@ EXCEPT !.status = to, !.id = IF setId THEN tx.id ELSE @]]
    ELSE store

\* Rows changed by the UPDATE.
UpdateAffected(tx, from) ==
  IF KeyOf(tx) \in DOMAIN store /\ store[KeyOf(tx)].status = from THEN 1 ELSE 0

\* SettleTransfer whose UPDATE sets the status it selects on.
SettleTransferToConfirmed(tx) ==
  /\ store' = UpdateWhere(tx, SubmissionConfirmed, SubmissionConfirmed, FALSE)
  /\ last' = [NoCall EXCEPT !.op = "SettleTransfer", !.tx = tx,
                !.affected = UpdateAffected(tx, SubmissionConfirmed),
                !.err = validateResult(UpdateAffected(tx, SubmissionConfirmed))]
  /\ UNCHANGED now

\* SettleTransfer: confirmed -> settled.
SettleTransfer(tx) ==
  /\ store' = UpdateWhere(tx, SubmissionConfirmed, TransferSettled, FALSE)
  /\ last' = [NoCall EXCEPT !.op = "SettleTransfer", !.tx = tx,
                !.affected = UpdateAffected(tx, SubmissionConfirmed),
                !.err = validateResult(UpdateAffected(tx, SubmissionConfirmed))]
  /\ UNCHANGED now

\* ConfirmTransfer whose UPDATE matches the row in any status.
ConfirmTransferAnyStatus(tx) ==
  /\ store' = IF KeyOf(tx) \in DOMAIN store
                THEN [store EXCEPT ![KeyOf(tx)] =
                        [@ EXCEPT !.status = SubmissionConfirmed, !.id = tx.id]]
                ELSE store
  /\ last' = [NoCall EXCEPT !.op = "ConfirmTransfer", !.tx = tx,
                !.affected = IF KeyOf(tx) \in DOMAIN store THEN 1 ELSE 0,
                !.err = validateResult(IF KeyOf(tx) \in DOMAIN store THEN 1 ELSE 0)]
  /\ UNCHANGED now

\* ConfirmTransfer: new -> confirmed, writing the id.
ConfirmTransfer(tx) ==
  /\ store' = UpdateWhere(tx, TransferNew, SubmissionConfirmed, TRUE)
  /\ last' = [NoCall EXCEPT !.op = "ConfirmTransfer", !.tx = tx,
                !.affected = UpdateAffected(tx, TransferNew),
                !.err = validateResult(UpdateAffected(tx, TransferNew))]
  /\ UNCHANGED now

\* The query without its WHERE clause.
MatchingAll(status) == DOMAIN store

\* The keys of the rows WHERE status = status.
Matching(status) == {k \in DOMAIN store : store[k].status = status}

\* ORDER BY creationTime: every order of the matching rows that is ascending in
\* creationTime; rows of one timestamp come in any order.
Ordered(ks) ==
  { s \in [1..Cardinality(ks) -> ks] :
      /\ \A i, j \in 1..Cardinality(ks) : i # j => s[i] # s[j]
      /\ \A i, j \in 1..Cardinality(ks) :
            i < j => store[s[i]].creationTime <= store[s[j]].creationTime }

\* The Transfer scanned from the row of key k: the SELECT reads neither
\* blockHeight nor txHash, and a NULL id leaves tx.id the zero hash.
Scan(k) ==
  [cashier |-> k[1], token |-> k[2], index |-> k[3],
   sender |-> store[k].sender, recipient |-> store[k].recipient,
   amount |-> store[k].amount, status |-> store[k].status,
   id |-> IF store[k].id # NULL THEN store[k].id ELSE ZeroHash,
   coToken |-> IF k[2] \in DOMAIN tokenPairs THEN tokenPairs[k[2]] ELSE "none"]

\* skip if token is not in whitelist
Whitelisted(k) == k[2] \in DOMAIN tokenPairs

\* The rows a scan in the order s appends to rec.
Collect(s) == SelectSeq([i \in 1..Len(s) |-> Scan(s[i])], LAMBDA tx : Whitelisted(KeyOf(tx)))

\* The rows the cursor can deliver before rows.Next() returns false: every
\* row of the result, or, when the connection fails while they are fetched,
\* none or the first one.
Fetches == {0, 1, MaxRows}

\* The rows rows.Next() delivers of a result in the order s, when the
\* connection holds for `fetched` rows.
Delivered(s, fetched) == SubSeq(s, 1, Min(fetched, Len(s)))

\* transfers(status): the loop over rows.Next() scans the rows delivered and
\* fails on a row whose amount is not positive; when rows.Next() returns
\* false the list is returned with a nil error, rows.Err() is not read.
transfers(op, status, fetched) ==
  /\ \E s \in Ordered(Matching(status)) :
       last' = IF \E i \in 1..Len(Delivered(s, fetched)) :
                      store[Delivered(s, fetched)[i]].amount <= 0
                 THEN [NoCall EXCEPT !.op = op, !.err = "amount"]
                 ELSE [NoCall EXCEPT !.op = op, !.rows = Collect(Delivered(s, fetched)),
                                     !.cut = (fetched < Len(s))]
  /\ UNCHANGED <<store, now>>

\* TransfersToSettle returns the list of transfers to confirm.
TransfersToSettle(fetched) == transfers("TransfersToSettle", SubmissionConfirmed, fetched)

\* TransfersToSubmit returns the list of transfers to submit.
TransfersToSubmit(fetched) == transfers("TransfersToSubmit", TransferNew, fetched)

Max(S) == CHOOSE x \in S : \A y \in S : y <= x

\* TipHeight: SELECT MAX(blockHeight), 0 for the NULL of an empty table.  An
\* error of row.Scan is dropped: the call returns 0 and no error.
TipHeight(scan) ==
  /\ last' = [NoCall EXCEPT !.op = "TipHeight", !.scan = scan,
                !.height = IF scan # "nil" THEN 0
                           ELSE IF DOMAIN store = {} THEN 0
                           ELSE Max({store[k].blockHeight : k \in DOMAIN store})]
  /\ UNCHANGED <<store, now>>

\* The database clock advances.
Tick ==
  /\ now < MaxClock
  /\ now' = now + 1
  /\ UNCHANGED <<store, last>>

-----------------------------------------------------------------------------
(* The validator driver on IoTeX. *)

\* gasLimit and gasPrice of NewTransferValidatorOnIoTeX; the price is counted
\* in units of 10^9.
gasLimit == 2000000
gasPrice == 1000
\* the page size of refresh
limit == 10

\* witness addresses, ordered as their bytes are
WitnessAddrs == {1, 2, 3}

\* The items of the witness-list contract: the witnesses 1 and 2 at the head
\* of the list, the witness 3 at its end, on a later page, and between them
\* items of addresses that stay inactive.
itemAddr(i) == IF i <= 2 THEN i ELSE IF i = ChainLen THEN 3 ELSE 100 + i
\* the positions of the witnesses 1, 2, 3 in the list
WitnessItems == {1, 2, ChainLen}

\* The witness signatures handed to Submit and SpeedUp: a signature is a byte
\* string, and the signatures differ in length.
Signature(a) == IF a = 1 THEN <<11, 12>> ELSE <<a * 10 + 1>>
WitnessInputs == { [addr |-> a, signature |-> Signature(a)] : a \in WitnessAddrs }

SigLists == UNION { [1..n -> WitnessInputs] : n \in 0..MaxSigs }

\* The Transfer handed to the driver: nonce, gasPrice and txHash are those its
\* last submission by this driver returned.
DriverTransfers ==
  { [cashier |-> "c1", token |-> "t1", index |-> 1, sender |-> "a1",
     recipient |-> "a1", amount |-> 1, id |-> "0x01", nonce |-> 7,
     gasPrice |-> gasPrice, txHash |-> "0xaa"] }

\* What the chain answers during one call: which remote call fails, if any,
\* and the relayer account's nonce and balance.
RpcOutcomes ==
  { [fail |-> "none", nonce |-> n, balance |-> "enough"] : n \in {0, 1} }
  \cup { [fail |-> "none", nonce |-> 0, balance |-> b] : b \in {"low", "malformed"} }
  \cup { [fail |-> f, nonce |-> 0, balance |-> "enough"] :
           f \in {"refresh", "account", "execute"} }

NoContractCall == [issued |-> FALSE, payload |-> <<>>, nonce |-> 0, gasPrice |-> 0,
                   gasLimit |-> 0]

NoDriverCall == [op |-> "none", transfer |-> [nonce |-> 0], sigs |-> <<>>,
                 rpc |-> [fail |-> "none"], err |-> "nil", hash |-> "0x00",
                 nonce |-> 0, gasPrice |-> 0, alert |-> FALSE,
                 call |-> NoContractCall, status |-> "none"]

\* getActiveItems(offset, limit): the active items among those at the
\* positions offset+1 .. offset+limit of the list.
getActiveItems(items, offset, lim) ==
  SelectSeq(SubSeq(items, offset + 1, Min(offset + lim, Len(items))),
            LAMBDA it : it.active)

\* The remote calls of refresh that read a page, for a list of count items.
PageCalls(count) == (count + limit - 1) \div limit

\* The list as the remote call of every page finds it, one list per page,
\* when the contract leaves it alone during the call.
Still(items) == [j \in 1..PageCalls(Len(items)) |-> items]

\* The lists an owner of the contract can make of the list between two
\* remote calls, activating and deactivating witnesses.
Changed(items) ==
  { [i \in 1..Len(items) |->
       [items[i] EXCEPT !.active = IF i \in T THEN ~@ ELSE @]] : T \in SUBSET WitnessItems }

\* The list as the remote call of every page can find it: refresh waits for
\* every page, and the contract can change between two of them.
RECURSIVE ListsFrom(_, _)
ListsFrom(items, n) ==
  IF n = 0 THEN {<<>>}
  ELSE UNION { { <<items>> \o rest : rest \in ListsFrom(next, n - 1) } :
                 next \in IF n = 1 THEN {items} ELSE Changed(items) }

Lists(items) == ListsFrom(items, PageCalls(Len(items)))

\* The list at the return of a call that read the lists.
ListAtReturn(items, lists) == IF lists = <<>> THEN items ELSE lists[Len(lists)]

\* The loop of refresh: page after page while offset < count, each page read
\* from the list its remote call finds.
RECURSIVE refreshPages(_, _, _)
refreshPages(lists, offset, count) ==
  IF offset < count
    THEN getActiveItems(lists[offset \div limit + 1], offset, limit)
           \o refreshPages(lists, offset + limit, count)
    ELSE <<>>

\* refresh that adds the pages to the map it has.
refreshMerged(lists, count) ==
  witnesses \cup LET ws == refreshPages(lists, 0, count) IN {ws[i].addr : i \in 1..Len(ws)}

\* refresh: the map built from the pages, keyed by address.
refresh(lists, count) ==
  LET ws == refreshPages(lists, 0, count) IN {ws[i].addr : i \in 1..Len(ws)}

\* isActiveWitness
isActiveWitness(cache, witness) == witness \in cache

RECURSIVE appendSignatures(_, _)
\* The loop of submit over the witnesses handed in, in their order: the
\* signature of every active one is appended.
appendSignatures(cache, ws) ==
  IF ws = <<>> THEN <<>>
  ELSE IF ~isActiveWitness(cache, Head(ws).addr)
    THEN appendSignatures(cache, Tail(ws))
    ELSE Head(ws).signature \o appendSignatures(cache, Tail(ws))

RECURSIVE numOfValidSignatures(_, _)
\* The loop of submit: one is counted for every entry of an active witness.
numOfValidSignatures(cache, ws) ==
  IF ws = <<>> THEN 0
  ELSE IF ~isActiveWitness(cache, Head(ws).addr)
    THEN numOfValidSignatures(cache, Tail(ws))
    ELSE 1 + numOfValidSignatures(cache, Tail(ws))

\* The quorum test with < in the place of <=.
InsufficientBelow(cache, ws) ==
  numOfValidSignatures(cache, ws) * 3 < Cardinality(cache) * 2

\* The quorum test of submit.
Insufficient(cache, ws) ==
  numOfValidSignatures(cache, ws) * 3 <= Cardinality(cache) * 2

\* The nonce read from the account on a resubmission too.
submitNonceFromAccount(transfer, resubmit, rpc) == rpc.nonce + 1

\* The nonce of the contract call.
submitNonce(transfer, resubmit, rpc) ==
  IF resubmit THEN transfer.nonce ELSE rpc.nonce + 1

\* submit, from the refreshed cache on.
submitResult(op, transfer, ws, resubmit, rpc, cache) ==
  LET base == [NoDriverCall EXCEPT !.op = op, !.transfer = transfer, !.sigs = ws,
                                   !.rpc = rpc]
  IN
  IF Insufficient(cache, ws) THEN [base EXCEPT !.err = "insufficient"]
  ELSE IF rpc.fail = "account" \/ rpc.balance = "malformed"
    THEN [base EXCEPT !.err = "noncritical"]
  ELSE LET call == [issued |-> TRUE, payload |-> appendSignatures(cache, ws),
                    nonce |-> submitNonce(transfer, resubmit, rpc),
                    gasPrice |-> gasPrice, gasLimit |-> gasLimit]
       IN IF rpc.fail = "execute"
            THEN [base EXCEPT !.err = "execute", !.call = call,
                              !.alert = (rpc.balance = "low")]
            ELSE [base EXCEPT !.hash = "0xaa", !.nonce = call.nonce,
                              !.gasPrice = gasPrice, !.call = call,
                              !.alert = (rpc.balance = "low")]

\* submit: a failed refresh leaves the cache as it was.  The call lasts for
\* several remote calls: lists holds the witness list as each page call
\* finds it, and the list at the return is the last of them.
submit(op, transfer, ws, resubmit, rpc, lists) ==
  /\ IF rpc.fail = "refresh"
       THEN /\ dlast' = [NoDriverCall EXCEPT !.op = op, !.transfer = transfer,
                           !.sigs = ws, !.rpc = rpc, !.err = "noncritical"]
            /\ UNCHANGED witnesses
       ELSE /\ witnesses' = refresh(lists, Len(chainItems))
            /\ dlast' = submitResult(op, transfer, ws, resubmit, rpc,
                                     refresh(lists, Len(chainItems)))
  /\ chainItems' = ListAtReturn(chainItems, lists)

\* Submit submits validation for a transfer, under the write lock.
Submit(transfer, ws, rpc, lists) == submit("Submit", transfer, ws, FALSE, rpc, lists)

\* SpeedUp resubmits at the transfer's nonce, under the write lock.
SpeedUp(transfer, ws, rpc, lists) == submit("SpeedUp", transfer, ws, TRUE, rpc, lists)

\* the action hashes a receipt can be asked for: the empty hash of an empty
\* request and the hash of the transfer's last submission
ActionHashes == {"", "0xaa"}

\* What GetReceiptByAction answers: codes.NotFound, another error, a receipt,
\* or neither an error nor a response.
ReceiptAnswers == {"NotFound", "Unavailable", "OK", "OKnil"}

\* What settles(id) and GetReceiptByAction answer to one Check: the receipt
\* service answers by the action hash it is asked for.
CheckOutcomes ==
  { [settlesFails |-> f, settleHeight |-> h, receipt |-> r] :
      f \in BOOLEAN, h \in {0, 5}, r \in [ActionHashes -> ReceiptAnswers] }

\* The request Check sends: &iotexapi.GetReceiptByActionRequest{}, whose
\* ActionHash is empty.
receiptRequest(transfer) == ""

\* Check, under the read lock.
CheckStatus(transfer, out) ==
  IF out.settlesFails THEN [status |-> "Unknown", err |-> "rpc"]
  ELSE IF out.settleHeight > 0 THEN [status |-> "Settled", err |-> "nil"]
  ELSE IF out.receipt[receiptRequest(transfer)] = "NotFound"
    THEN [status |-> "NeedSpeedUp", err |-> "nil"]
  ELSE IF out.receipt[receiptRequest(transfer)] = "Unavailable"
    THEN [status |-> "Unknown", err |-> "rpc"]
  ELSE IF out.receipt[receiptRequest(transfer)] = "OK"
    THEN [status |-> "Rejected", err |-> "nil"]
  ELSE [status |-> "NotConfirmed", err |-> "nil"]

Check(transfer, out) ==
  /\ dlast' = [NoDriverCall EXCEPT !.op = "Check", !.transfer = transfer,
                 !.rpc = out, !.status = CheckStatus(transfer, out).status,
                 !.err = CheckStatus(transfer, out).err]
  /\ UNCHANGED <<chainItems, witnesses>>

\* The call returns: the lock is released and the caller takes the result.
DriverReturn ==
  /\ dlast.op # "none"
  /\ dlast' = NoDriverCall
  /\ UNCHANGED <<chainItems, witnesses>>

\* The witness-list contract activates or deactivates an item.
ChainSetActive(i) ==
  /\ chainItems' = [chainItems EXCEPT ![i].active = ~@]
  /\ UNCHANGED <<witnesses, dlast>>

-----------------------------------------------------------------------------
(* The driver's lock: Submit and SpeedUp run between tv.mu.Lock() and the   *)
(* deferred tv.mu.Unlock(), Check and Address between tv.mu.RLock() and the *)
(* deferred tv.mu.RUnlock().  tv.mu is a sync.RWMutex:                      *)
(*   Lock    takes the writers' mutex w, makes readerCount negative (the    *)
(*           writer is announced) and, when readers are counted, adds them  *)
(*           to readerWait and sleeps on writerSem;                         *)
(*   RLock   adds one to readerCount and, when a writer is announced,       *)
(*           sleeps on readerSem;                                           *)
(*   RUnlock takes one from readerCount and, when a writer is announced,    *)
(*           one from readerWait; the reader that brings readerWait to 0    *)
(*           releases writerSem;                                            *)
(*   Unlock  withdraws the announcement, releases readerSem once for every  *)
(*           reader counted and releases w.                                 *)
(* A semaphore is a counter: a release adds one, and any thread asleep on   *)
(* it, whenever it arrived, may take a count and go on.  mu.announced says  *)
(* that readerCount is negative, mu.readerCount is the number of readers    *)
(* counted in it.                                                           *)

\* the threads that call the driver: the service loop and RPC threads
Threads == {1, 2, 3}

\* The calls the threads make.
LockSigLists ==
  { [i \in 1..3 |-> [addr |-> i, signature |-> Signature(i)]],
    <<[addr |-> 1, signature |-> Signature(1)]>> }
LockRpc == { r \in RpcOutcomes : r.nonce = 0 /\ r.balance = "enough" /\ r.fail = "none" }
LockCheckOutcomes ==
  { o \in CheckOutcomes : ~o.settlesFails /\ o.settleHeight = 5 /\ \A h \in ActionHashes : o.receipt[h] = "OK" }

NoThread == [pc |-> "idle", op |-> "none"]

\* The zero value of a sync.RWMutex.
NoMutex == [w |-> FALSE, announced |-> FALSE, readerCount |-> 0, readerWait |-> 0,
            readerSem |-> 0, writerSem |-> 0]

\* Lock takes the writers' mutex when no other writer has it.
canLock(m) == ~m.w

\* A writer that counts no reader at all when it announces itself.
readersCountedNone(m) == 0

\* The readers a writer counts when it announces itself: r in Lock.
readersCounted(m) == m.readerCount

\* RLock returns at once when no writer is announced.
canRLock(m) == ~m.announced

\* Where a thread stands once it holds the read lock.
Inside(t) == [t EXCEPT !.pc = IF t.op = "Check" THEN "check" ELSE "address"]

\* A thread calls Submit or SpeedUp: it reaches tv.mu.Lock().
CallSubmit(t, op) ==
  /\ th[t].pc = "idle"
  /\ th' = [th EXCEPT ![t] = [pc |-> "Lock", op |-> op]]
  /\ UNCHANGED <<mu, driverVars>>

\* tv.mu.Lock(): the writers' mutex is taken and the writer announced; from
\* now on RLock sleeps.  With readers counted the writer sleeps on writerSem
\* until the last of them has left, else Lock returns.
Lock(t) ==
  /\ th[t].pc = "Lock"
  /\ canLock(mu)
  /\ mu' = [mu EXCEPT !.w = TRUE, !.announced = TRUE,
                      !.readerWait = @ + readersCounted(mu)]
  /\ th' = [th EXCEPT ![t].pc =
              IF readersCounted(mu) # 0 /\ mu.readerWait + readersCounted(mu) # 0
                THEN "Drain" ELSE "submit"]
  /\ UNCHANGED driverVars

\* tv.mu.Lock() returns: the writer takes the count the last reader released
\* on writerSem.
LockReturn(t) ==
  /\ th[t].pc = "Drain"
  /\ mu.writerSem > 0
  /\ mu' = [mu EXCEPT !.writerSem = @ - 1]
  /\ th' = [th EXCEPT ![t].pc = "submit"]
  /\ UNCHANGED driverVars

\* The body of Submit or SpeedUp: submit.
SubmitBody(t) ==
  /\ th[t].pc = "submit"
  /\ \E tr \in DriverTransfers, ws \in LockSigLists, rpc \in LockRpc :
       \E lists \in Lists(chainItems) :
         IF th[t].op = "Submit" THEN Submit(tr, ws, rpc, lists)
                                ELSE SpeedUp(tr, ws, rpc, lists)
  /\ th' = [th EXCEPT ![t].pc = "Unlock"]
  /\ UNCHANGED mu

\* The deferred tv.mu.Unlock(): the announcement is withdrawn, readerSem is
\* released once for every reader counted, and the writers' mutex is
\* released.  The readers asleep are not handed the lock: each takes a count
\* in a step of its own.
Unlock(t) ==
  /\ th[t].pc = "Unlock"
  /\ mu' = [mu EXCEPT !.announced = FALSE, !.readerSem = @ + mu.readerCount,
                      !.w = FALSE]
  /\ th' = [th EXCEPT ![t] = NoThread]
  /\ UNCHANGED driverVars

\* A thread calls Check: it reaches tv.mu.RLock().
CallCheck(t) ==
  /\ th[t].pc = "idle"
  /\ th' = [th EXCEPT ![t] = [pc |-> "RLock", op |-> "Check"]]
  /\ UNCHANGED <<mu, driverVars>>

\* A thread calls Address: it reaches tv.mu.RLock().
CallAddress(t) ==
  /\ th[t].pc = "idle"
  /\ th' = [th EXCEPT ![t] = [pc |-> "RLock", op |-> "Address"]]
  /\ UNCHANGED <<mu, driverVars>>

\* tv.mu.RLock(), in Check or in Address: the reader is counted; it returns
\* at once, or sleeps on readerSem when a writer is announced.
RLock(t) ==
  /\ th[t].pc = "RLock"
  /\ mu' = [mu EXCEPT !.readerCount = @ + 1]
  /\ th' = [th EXCEPT ![t] = IF canRLock(mu) THEN Inside(th[t])
                                             ELSE [th[t] EXCEPT !.pc = "Blocked"]]
  /\ UNCHANGED driverVars

\* tv.mu.RLock() returns to a reader asleep: it takes a count of readerSem,
\* whether the count was released for it or for a reader that came earlier.
RLockReturn(t) ==
  /\ th[t].pc = "Blocked"
  /\ mu.readerSem > 0
  /\ mu' = [mu EXCEPT !.readerSem = @ - 1]
  /\ th' = [th EXCEPT ![t] = Inside(th[t])]
  /\ UNCHANGED driverVars

\* The body of Address: the address of the validator contract, which no call
\* changes, is read.
AddressBody(t) ==
  /\ th[t].pc = "address"
  /\ th' = [th EXCEPT ![t].pc = "RUnlock"]
  /\ UNCHANGED <<mu, driverVars>>

\* The body of Check.
CheckBody(t) ==
  /\ th[t].pc = "check"
  /\ \E tr \in DriverTransfers, out \in LockCheckOutcomes : Check(tr, out)
  /\ th' = [th EXCEPT ![t].pc = "RUnlock"]
  /\ UNCHANGED mu

\* The deferred tv.mu.RUnlock(): the reader is no longer counted; with a
\* writer announced it is taken from readerWait too, and the reader that
\* brings readerWait to 0 releases writerSem.
RUnlock(t) ==
  /\ th[t].pc = "RUnlock"
  /\ mu' = IF ~mu.announced
             THEN [mu EXCEPT !.readerCount = @ - 1]
             ELSE [mu EXCEPT !.readerCount = @ - 1, !.readerWait = @ - 1,
                             !.writerSem = IF mu.readerWait - 1 = 0 THEN @ + 1 ELSE @]
  /\ th' = [th EXCEPT ![t] = NoThread]
  /\ UNCHANGED driverVars

-----------------------------------------------------------------------------
(* The relayer's recorder and its service loop, from the design of the      *)
(* service (sections 4.1 and 4.4): their code is not part of the sources    *)
(* modelled above.  The loop adds transfers with AddTransfer and reads its  *)
(* submit queue with TransfersToSubmit, which are; every conditional update *)
(* is the UPDATE ... WHERE status=? of the recorder.  The columns nonce,    *)
(* gasPrice and destination txHash of the design are kept in `submission`.  *)

\* the statuses of the design that the recorder of witness/recorder.go lacks
TransferSubmitted == "submitted"
TransferFailed == "failed"

Statuses ==
  {TransferNew, TransferSubmitted, SubmissionConfirmed, TransferSettled, TransferFailed}

\* the error of a conditional update that changed no row
ErrStaleState == "StaleState"

\* the submission coordinates of a transfer that was never submitted
NoSubmission == [nonce |-> 0, gasPrice |-> 0, txHash |-> "0x00"]

\* what the driver returned to an execution of the loop that holds no result
NoRet == [status |-> "none", txHash |-> "0x00", nonce |-> 0, gasPrice |-> 0]

\* A row count of exactly 1 indicates success, otherwise ErrStaleState.
staleState(affected) == IF affected # 1 THEN ErrStaleState ELSE "nil"

\* The rows changed by an UPDATE ... WHERE key AND status IN froms.
AffectedFrom(tx, froms) ==
  IF KeyOf(tx) \in DOMAIN store /\ store[KeyOf(tx)].status \in froms THEN 1 ELSE 0

\* MarkSubmitted whose UPDATE matches the row in any status.
MarkSubmittedAnyStatus(tx, id, nonce, price, hash) ==
  /\ store' = IF KeyOf(tx) \in DOMAIN store
                THEN [store EXCEPT ![KeyOf(tx)] =
                        [@ EXCEPT !.status = TransferSubmitted, !.id = id]]
                ELSE store
  /\ submission' = IF KeyOf(tx) \in DOMAIN store
                     THEN [submission EXCEPT ![KeyOf(tx)] =
                             [nonce |-> nonce, gasPrice |-> price, txHash |-> hash]]
                     ELSE submission
  /\ last' = [NoCall EXCEPT !.op = "MarkSubmitted", !.tx = [tx EXCEPT !.id = id],
                !.affected = IF KeyOf(tx) \in DOMAIN store THEN 1 ELSE 0,
                !.err = staleState(IF KeyOf(tx) \in DOMAIN store THEN 1 ELSE 0)]
  /\ UNCHANGED now

\* MarkSubmitted(transferKey, id, nonce, gasPrice, txHash): new -> submitted,
\* writing the id, the nonce, the gasPrice and the destination txHash.
MarkSubmitted(tx, id, nonce, price, hash) ==
  /\ store' = UpdateWhere([tx EXCEPT !.id = id], TransferNew, TransferSubmitted, TRUE)
  /\ submission' = IF AffectedFrom(tx, {TransferNew}) = 1
                     THEN [submission EXCEPT ![KeyOf(tx)] =
                             [nonce |-> nonce, gasPrice |-> price, txHash |-> hash]]
                     ELSE submission
  /\ last' = [NoCall EXCEPT !.op = "MarkSubmitted", !.tx = [tx EXCEPT !.id = id],
                !.affected = AffectedFrom(tx, {TransferNew}),
                !.err = staleState(AffectedFrom(tx, {TransferNew}))]
  /\ UNCHANGED now

\* The overwrite after a speed-up: nonce, gasPrice and txHash of a transfer
\* in submitted are replaced; the id and the status stay.
OverwriteSubmission(tx, nonce, price, hash) ==
  /\ submission' = IF AffectedFrom(tx, {TransferSubmitted}) = 1
                     THEN [submission EXCEPT ![KeyOf(tx)] =
                             [nonce |-> nonce, gasPrice |-> price, txHash |-> hash]]
                     ELSE submission
  /\ last' = [NoCall EXCEPT !.op = "OverwriteSubmission", !.tx = tx,
                !.affected = AffectedFrom(tx, {TransferSubmitted}),
                !.err = staleState(AffectedFrom(tx, {TransferSubmitted}))]
  /\ UNCHANGED <<store, now>>

\* MarkConfirmed that moves the transfer on to settled at once.
MarkConfirmedToSettled(tx) ==
  /\ store' = UpdateWhere(tx, TransferSubmitted, TransferSettled, FALSE)
  /\ last' = [NoCall EXCEPT !.op = "MarkConfirmed", !.tx = tx,
                !.affected = AffectedFrom(tx, {TransferSubmitted}),
                !.err = staleState(AffectedFrom(tx, {TransferSubmitted}))]
  /\ UNCHANGED <<now, submission>>

\* MarkConfirmed(transferKey): submitted -> confirmed.
MarkConfirmed(tx) ==
  /\ store' = UpdateWhere(tx, TransferSubmitted, SubmissionConfirmed, FALSE)
  /\ last' = [NoCall EXCEPT !.op = "MarkConfirmed", !.tx = tx,
                !.affected = AffectedFrom(tx, {TransferSubmitted}),
                !.err = staleState(AffectedFrom(tx, {TransferSubmitted}))]
  /\ UNCHANGED <<now, submission>>

\* MarkSettled(transferKey): confirmed -> settled.
MarkSettled(tx) ==
  /\ store' = UpdateWhere(tx, SubmissionConfirmed, TransferSettled, FALSE)
  /\ last' = [NoCall EXCEPT !.op = "MarkSettled", !.tx = tx,
                !.affected = AffectedFrom(tx, {SubmissionConfirmed}),
                !.err = staleState(AffectedFrom(tx, {SubmissionConfirmed}))]
  /\ UNCHANGED <<now, submission>>

\* MarkFailed that reports success and leaves the status.
MarkFailedKeepsStatus(tx, reason) ==
  /\ last' = [NoCall EXCEPT !.op = "MarkFailed", !.tx = tx, !.reason = reason,
                !.affected = AffectedFrom(tx, {TransferSubmitted, SubmissionConfirmed}),
                !.err = staleState(AffectedFrom(tx, {TransferSubmitted, SubmissionConfirmed}))]
  /\ UNCHANGED <<store, now, submission>>

\* MarkFailed(transferKey, reason): submitted or confirmed -> failed.
MarkFailed(tx, reason) ==
  /\ store' = IF AffectedFrom(tx, {TransferSubmitted, SubmissionConfirmed}) = 1
                THEN [store EXCEPT ![KeyOf(tx)].status = TransferFailed]
                ELSE store
  /\ last' = [NoCall EXCEPT !.op = "MarkFailed", !.tx = tx, !.reason = reason,
                !.affected = AffectedFrom(tx, {TransferSubmitted, SubmissionConfirmed}),
                !.err = staleState(AffectedFrom(tx, {TransferSubmitted, SubmissionConfirmed}))]
  /\ UNCHANGED <<now, submission>>

\* TransfersToSettle of the design: the transfers in submitted, oldest first.
\* (The function of that name in witness/recorder.go selects the status
\* confirmed; the loop's check queue is that of the design.)
TransfersInSubmitted(fetched) == transfers("TransfersInSubmitted", TransferSubmitted, fetched)

\* TransfersToCheck of the design: the transfers in confirmed, oldest first.
TransfersToCheck(fetched) == transfers("TransfersToCheck", SubmissionConfirmed, fetched)

\* The transfers of a query result with the coordinates of their submission.
WithSubmission(rows) ==
  [i \in 1..Len(rows) |-> submission[KeyOf(rows[i])] @@ rows[i]]

\* the executions of the loop that may overlap
Loops == {1, 2}

\* The transfers the scraper adds while the service runs.
ServiceInputs == { Variant("c1", "t1", i, "a1", 1, i) : i \in Tidxs }
ServiceKeys == { KeyOf(tx) : tx \in ServiceInputs }

\* The witnesses that submit signatures while the service runs.
ServiceWitnesses == {1, 2}

\* The transfer that overlapping executions of the loop contend for, and the
\* witness that signs it.
ContendedInputs == { Variant("c1", "t1", 1, "a1", 1, 1) }
ContendedWitnesses == {1}

\* What the chain answers to the loop's Submit and SpeedUp.
ServiceRpc == RpcOutcomes

\* What the chain answers to the loop's Check.  The receipt service answers
\* for the transaction of the transfer's submission, which is found or not,
\* and for the empty hash on their own; when it is down it answers to no
\* request; and it is not asked when settles fails or the transfer is settled.
LoopCheckOutcomes ==
  { o \in CheckOutcomes :
      /\ o.settlesFails =>
           (o.settleHeight = 0 /\ \A h \in ActionHashes : o.receipt[h] = "Unavailable")
      /\ o.settleHeight > 0 => (o.receipt[""] = "NotFound" /\ o.receipt["0xaa"] = "OK")
      /\ (\E h \in ActionHashes : o.receipt[h] = "Unavailable") =>
           (\A h \in ActionHashes : o.receipt[h] = "Unavailable")
      /\ o.receipt["0xaa"] # "OKnil" }

\* The id an execution of the loop hands to the recorder with a transfer.
LoopId(p) == IF p = 1 THEN "0x01" ELSE ZeroHash

\* The elements of a set of addresses in ascending order.
Ascending(S) ==
  CHOOSE s \in [1..Cardinality(S) -> S] :
    \A i, j \in 1..Cardinality(S) : i < j => s[i] < s[j]

\* Witnesses(transferKey): the signatures of a transfer, ascending by address.
Witnesses(k) ==
  [i \in 1..Cardinality(sigs[k]) |->
     [addr |-> Ascending(sigs[k])[i], signature |-> Signature(Ascending(sigs[k])[i])]]

\* AddWitness: a signature row is inserted for an existing transfer.
AddWitness(k, w) ==
  /\ k \in DOMAIN store
  /\ w \notin sigs[k]
  /\ sigs' = [sigs EXCEPT ![k] = @ \cup {w}]
  /\ UNCHANGED <<recorderVars, driverVars, pc, queue, sent, attempts, submission, ret,
                 confirmedInTick>>

\* The scraper adds a transfer.
ServiceAddTransfer(tx) ==
  /\ AddTransfer(tx)
  /\ UNCHANGED <<driverVars, serviceVars>>

\* The record of a conditional update of the loop: the mutator, the id and
\* the submission coordinates it was to write, and the error it returned.
Attempt(op, id, sub, err) == [op |-> op, id |-> id, sub |-> sub, err |-> err]

\* A tick begins: the submit phase reads its queue.  A query that returns an
\* error leaves the phase without transfers.
LoopStart(p) ==
  /\ pc[p] = "idle"
  /\ \E fetched \in Fetches : TransfersToSubmit(fetched)
  /\ queue' = [queue EXCEPT ![p] = IF last'.err = "nil" THEN last'.rows ELSE <<>>]
  /\ pc' = [pc EXCEPT ![p] = "submit"]
  /\ confirmedInTick' = [confirmedInTick EXCEPT ![p] = {}]
  /\ UNCHANGED <<driverVars, sigs, sent, attempts, submission, ret>>

\* Submit phase: the signatures of the next transfer are fetched and handed to
\* Submit; a failed Submit leaves the transfer and the loop goes on.
LoopSubmit(p) ==
  /\ pc[p] = "submit"
  /\ queue[p] # <<>>
  /\ sent[KeyOf(Head(queue[p]))] < MaxSent
  /\ \E rpc \in ServiceRpc :
       Submit([Head(queue[p]) EXCEPT !.id = LoopId(p)], Witnesses(KeyOf(Head(queue[p]))), rpc,
              Still(chainItems))
  /\ IF dlast'.err = "nil"
       THEN /\ sent' = [sent EXCEPT ![KeyOf(Head(queue[p]))] = @ + 1]
            /\ pc' = [pc EXCEPT ![p] = "mark"]
            /\ ret' = [ret EXCEPT ![p] = [NoRet EXCEPT !.txHash = dlast'.hash,
                                            !.nonce = dlast'.nonce,
                                            !.gasPrice = dlast'.gasPrice]]
            /\ UNCHANGED queue
       ELSE /\ queue' = [queue EXCEPT ![p] = Tail(@)]
            /\ UNCHANGED <<sent, pc, ret>>
  /\ UNCHANGED <<recorderVars, sigs, attempts, submission, confirmedInTick>>

\* Submit phase: on success call Recorder.MarkSubmitted.
LoopMark(p) ==
  /\ pc[p] = "mark"
  /\ MarkSubmitted(Head(queue[p]), LoopId(p), ret[p].nonce, ret[p].gasPrice, ret[p].txHash)
  /\ attempts' = [attempts EXCEPT ![KeyOf(Head(queue[p]))] =
                    Append(@, Attempt("MarkSubmitted", LoopId(p),
                                      [nonce |-> ret[p].nonce, gasPrice |-> ret[p].gasPrice,
                                       txHash |-> ret[p].txHash], last'.err))]
  /\ queue' = [queue EXCEPT ![p] = Tail(@)]
  /\ pc' = [pc EXCEPT ![p] = "submit"]
  /\ ret' = [ret EXCEPT ![p] = NoRet]
  /\ UNCHANGED <<driverVars, sigs, sent, confirmedInTick>>

\* The execution is cancelled after the broadcast and before the submission
\* is recorded: nothing is rolled back.
LoopCancel(p) ==
  /\ pc[p] = "mark"
  /\ pc' = [pc EXCEPT ![p] = "idle"]
  /\ queue' = [queue EXCEPT ![p] = <<>>]
  /\ ret' = [ret EXCEPT ![p] = NoRet]
  /\ UNCHANGED <<recorderVars, driverVars, sigs, sent, attempts, submission, confirmedInTick>>

\* The submit phase is over: the check phase reads its queue, the transfers
\* in submitted.
LoopToCheck(p) ==
  /\ pc[p] = "submit"
  /\ queue[p] = <<>>
  /\ \E fetched \in Fetches : TransfersInSubmitted(fetched)
  /\ queue' = [queue EXCEPT ![p] =
                 IF last'.err = "nil" THEN WithSubmission(last'.rows) ELSE <<>>]
  /\ pc' = [pc EXCEPT ![p] = "check"]
  /\ UNCHANGED <<driverVars, sigs, sent, attempts, submission, ret, confirmedInTick>>

\* Check phase: Check is called for the next transfer.
LoopCheck(p) ==
  /\ pc[p] = "check"
  /\ queue[p] # <<>>
  /\ \E out \in LoopCheckOutcomes : Check(Head(queue[p]), out)
  /\ ret' = [ret EXCEPT ![p] = [NoRet EXCEPT !.status = dlast'.status]]
  /\ pc' = [pc EXCEPT ![p] = "act"]
  /\ UNCHANGED <<recorderVars, sigs, queue, sent, attempts, submission, confirmedInTick>>

\* Check phase: the loop acts on what Check returned.  Settled: MarkConfirmed;
\* NeedSpeedUp: SpeedUp, and the overwrite follows a success; Rejected:
\* MarkFailed; NotConfirmed and Unknown: nothing.
LoopAct(p) ==
  /\ pc[p] = "act"
  /\ CASE ret[p].status = "Settled" ->
            /\ MarkConfirmed(Head(queue[p]))
            /\ attempts' = [attempts EXCEPT ![KeyOf(Head(queue[p]))] =
                              Append(@, Attempt("MarkConfirmed", Head(queue[p]).id,
                                                NoSubmission, last'.err))]
            /\ confirmedInTick' =
                 [confirmedInTick EXCEPT ![p] =
                    IF last'.err = "nil" THEN @ \cup {KeyOf(Head(queue[p]))} ELSE @]
            /\ queue' = [queue EXCEPT ![p] = Tail(@)]
            /\ pc' = [pc EXCEPT ![p] = "check"]
            /\ ret' = [ret EXCEPT ![p] = NoRet]
            /\ UNCHANGED driverVars
       [] ret[p].status = "NeedSpeedUp" ->
            /\ \E rpc \in ServiceRpc :
                 SpeedUp(Head(queue[p]), Witnesses(KeyOf(Head(queue[p]))), rpc,
                         Still(chainItems))
            /\ IF dlast'.err = "nil"
                 THEN /\ pc' = [pc EXCEPT ![p] = "overwrite"]
                      /\ ret' = [ret EXCEPT ![p] = [NoRet EXCEPT !.txHash = dlast'.hash,
                                                      !.nonce = dlast'.nonce,
                                                      !.gasPrice = dlast'.gasPrice]]
                      /\ UNCHANGED queue
                 ELSE /\ queue' = [queue EXCEPT ![p] = Tail(@)]
                      /\ pc' = [pc EXCEPT ![p] = "check"]
                      /\ ret' = [ret EXCEPT ![p] = NoRet]
            /\ UNCHANGED <<recorderVars, submission, attempts, confirmedInTick>>
       [] ret[p].status = "Rejected" ->
            /\ MarkFailed(Head(queue[p]), "rejected")
            /\ attempts' = [attempts EXCEPT ![KeyOf(Head(queue[p]))] =
                              Append(@, Attempt("MarkFailed", Head(queue[p]).id,
                                                NoSubmission, last'.err))]
            /\ queue' = [queue EXCEPT ![p] = Tail(@)]
            /\ pc' = [pc EXCEPT ![p] = "check"]
            /\ ret' = [ret EXCEPT ![p] = NoRet]
            /\ UNCHANGED <<driverVars, confirmedInTick>>
       [] OTHER ->
            /\ queue' = [queue EXCEPT ![p] = Tail(@)]
            /\ pc' = [pc EXCEPT ![p] = "check"]
            /\ ret' = [ret EXCEPT ![p] = NoRet]
            /\ UNCHANGED <<recorderVars, driverVars, submission, attempts, confirmedInTick>>
  /\ UNCHANGED <<sigs, sent>>

\* Check phase: after a successful SpeedUp the nonce, the gasPrice and the
\* txHash of the transfer are overwritten.
LoopOverwrite(p) ==
  /\ pc[p] = "overwrite"
  /\ OverwriteSubmission(Head(queue[p]), ret[p].nonce, ret[p].gasPrice, ret[p].txHash)
  /\ queue' = [queue EXCEPT ![p] = Tail(@)]
  /\ pc' = [pc EXCEPT ![p] = "check"]
  /\ ret' = [ret EXCEPT ![p] = NoRet]
  /\ UNCHANGED <<driverVars, sigs, sent, attempts, confirmedInTick>>

\* The check phase is over: the settle phase reads its queue, the transfers
\* in confirmed.
LoopToSettle(p) ==
  /\ pc[p] = "check"
  /\ queue[p] = <<>>
  /\ \E fetched \in Fetches : TransfersToCheck(fetched)
  /\ queue' = [queue EXCEPT ![p] = IF last'.err = "nil" THEN last'.rows ELSE <<>>]
  /\ pc' = [pc EXCEPT ![p] = "settle"]
  /\ UNCHANGED <<driverVars, sigs, sent, attempts, submission, ret, confirmedInTick>>

\* Settle phase: MarkSettled is called for the next transfer.
LoopSettle(p) ==
  /\ pc[p] = "settle"
  /\ queue[p] # <<>>
  /\ MarkSettled(Head(queue[p]))
  /\ attempts' = [attempts EXCEPT ![KeyOf(Head(queue[p]))] =
                    Append(@, Attempt("MarkSettled", Head(queue[p]).id, NoSubmission, last'.err))]
  /\ queue' = [queue EXCEPT ![p] = Tail(@)]
  /\ UNCHANGED <<driverVars, sigs, pc, sent, ret, confirmedInTick>>

\* The settle phase is over: the tick ends.
LoopTickEnd(p) ==
  /\ pc[p] = "settle"
  /\ queue[p] = <<>>
  /\ pc' = [pc EXCEPT ![p] = "idle"]
  /\ UNCHANGED <<recorderVars, driverVars, sigs, queue, sent, attempts, submission, ret,
                 confirmedInTick>>

Init ==
  /\ store = <<>>
  /\ now = 0
  /\ last = NoCall
  /\ chainItems = [i \in 1..ChainLen |-> [addr |-> itemAddr(i), active |-> i \in WitnessItems]]
  /\ witnesses = {}
  /\ dlast = NoDriverCall
  /\ sigs = [k \in Keys |-> {}]
  /\ pc = [p \in Loops |-> "idle"]
  /\ queue = [p \in Loops |-> <<>>]
  /\ sent = [k \in Keys |-> 0]
  /\ attempts = [k \in Keys |-> <<>>]
  /\ submission = [k \in Keys |-> NoSubmission]
  /\ ret = [p \in Loops |-> NoRet]
  /\ confirmedInTick = [p \in Loops |-> {}]
  /\ mu = NoMutex
  /\ th = [t \in Threads |-> NoThread]

\* The recorder, called in any order.
Next ==
  \/ \E tx \in TransferInputs : AddTransfer(tx) /\ UNCHANGED <<driverVars, serviceVars, lockVars>>
  \/ \E tx \in MutatorInputs : ConfirmTransfer(tx) /\ UNCHANGED <<driverVars, serviceVars, lockVars>>
  \/ \E tx \in MutatorInputs : SettleTransfer(tx) /\ UNCHANGED <<driverVars, serviceVars, lockVars>>
  \/ \E fetched \in Fetches : TransfersToSubmit(fetched) /\ UNCHANGED <<driverVars, serviceVars, lockVars>>
  \/ \E fetched \in Fetches : TransfersToSettle(fetched) /\ UNCHANGED <<driverVars, serviceVars, lockVars>>
  \/ \E scan \in ScanOutcomes : TipHeight(scan) /\ UNCHANGED <<driverVars, serviceVars, lockVars>>
  \/ Tick /\ UNCHANGED <<driverVars, serviceVars, lockVars>>

Spec == Init /\ [][Next]_vars

\* The driver, called in any order against a changing witness list; one call
\* at a time is observed.
NextDriver ==
  \/ /\ dlast.op = "none"
     /\ \E t \in DriverTransfers, ws \in SigLists, rpc \in RpcOutcomes,
           lists \in Lists(chainItems) : Submit(t, ws, rpc, lists)
     /\ UNCHANGED <<recorderVars, serviceVars, lockVars>>
  \/ /\ dlast.op = "none"
     /\ \E t \in DriverTransfers, ws \in SigLists, rpc \in RpcOutcomes,
           lists \in Lists(chainItems) : SpeedUp(t, ws, rpc, lists)
     /\ UNCHANGED <<recorderVars, serviceVars, lockVars>>
  \/ /\ dlast.op = "none"
     /\ \E t \in DriverTransfers, out \in CheckOutcomes : Check(t, out)
     /\ UNCHANGED <<recorderVars, serviceVars, lockVars>>
  \/ DriverReturn /\ UNCHANGED <<recorderVars, serviceVars, lockVars>>
  \/ \E i \in WitnessItems : ChainSetActive(i) /\ UNCHANGED <<recorderVars, serviceVars, lockVars>>

SpecDriver == Init /\ [][NextDriver]_vars

\* The service starts with an empty table against a witness list of one
\* active witness.
InitService ==
  /\ store = <<>>
  /\ now = 0
  /\ last = NoCall
  /\ chainItems = [i \in 1..ChainLen |-> [addr |-> itemAddr(i), active |-> (i = 1)]]
  /\ witnesses = {}
  /\ dlast = NoDriverCall
  /\ sigs = [k \in Keys |-> {}]
  /\ pc = [p \in Loops |-> "idle"]
  /\ queue = [p \in Loops |-> <<>>]
  /\ sent = [k \in Keys |-> 0]
  /\ attempts = [k \in Keys |-> <<>>]
  /\ submission = [k \in Keys |-> NoSubmission]
  /\ ret = [p \in Loops |-> NoRet]
  /\ confirmedInTick = [p \in Loops |-> {}]
  /\ mu = NoMutex
  /\ th = [t \in Threads |-> NoThread]

\* The service with executions of the loop that overlap: a transfer and its
\* signatures arrive while two executions run their phases, and an execution
\* can be cancelled between the broadcast and the recording of a submission.
NextService ==
  \/ \E tx \in ContendedInputs : ServiceAddTransfer(tx) /\ UNCHANGED lockVars
  \/ \E tx \in ContendedInputs, w \in ContendedWitnesses :
       AddWitness(KeyOf(tx), w) /\ UNCHANGED lockVars
  \/ \E p \in Loops : LoopStart(p) /\ UNCHANGED lockVars
  \/ \E p \in Loops : LoopSubmit(p) /\ UNCHANGED lockVars
  \/ \E p \in Loops : LoopMark(p) /\ UNCHANGED lockVars
  \/ \E p \in Loops : LoopCancel(p) /\ UNCHANGED lockVars
  \/ \E p \in Loops : LoopToCheck(p) /\ UNCHANGED lockVars
  \/ \E p \in Loops : LoopCheck(p) /\ UNCHANGED lockVars
  \/ \E p \in Loops : LoopAct(p) /\ UNCHANGED lockVars
  \/ \E p \in Loops : LoopOverwrite(p) /\ UNCHANGED lockVars
  \/ \E p \in Loops : LoopToSettle(p) /\ UNCHANGED lockVars
  \/ \E p \in Loops : LoopSettle(p) /\ UNCHANGED lockVars
  \/ \E p \in Loops : LoopTickEnd(p) /\ UNCHANGED lockVars

SpecService == InitService /\ [][NextService]_vars

\* The driver called by several threads at once, against a changing witness list.
NextLock ==
  \/ \E t \in Threads, op \in {"Submit", "SpeedUp"} :
       CallSubmit(t, op) /\ UNCHANGED <<recorderVars, serviceVars>>
  \/ \E t \in Threads : Lock(t) /\ UNCHANGED <<recorderVars, serviceVars>>
  \/ \E t \in Threads : LockReturn(t) /\ UNCHANGED <<recorderVars, serviceVars>>
  \/ \E t \in Threads : SubmitBody(t) /\ UNCHANGED <<recorderVars, serviceVars>>
  \/ \E t \in Threads : Unlock(t) /\ UNCHANGED <<recorderVars, serviceVars>>
  \/ \E t \in Threads : CallCheck(t) /\ UNCHANGED <<recorderVars, serviceVars>>
  \/ \E t \in Threads : CallAddress(t) /\ UNCHANGED <<recorderVars, serviceVars>>
  \/ \E t \in Threads : AddressBody(t) /\ UNCHANGED <<recorderVars, serviceVars>>
  \/ \E t \in Threads : RLock(t) /\ UNCHANGED <<recorderVars, serviceVars>>
  \/ \E t \in Threads : RLockReturn(t) /\ UNCHANGED <<recorderVars, serviceVars>>
  \/ \E t \in Threads : CheckBody(t) /\ UNCHANGED <<recorderVars, serviceVars>>
  \/ \E t \in Threads : RUnlock(t) /\ UNCHANGED <<recorderVars, serviceVars>>
  \/ \E i \in WitnessItems :
       ChainSetActive(i) /\ UNCHANGED <<recorderVars, serviceVars, lockVars>>

SpecLock == Init /\ [][NextLock]_vars

\* The service with its one loop: transfers and signatures arrive while the
\* loop runs tick after tick.
NextLoop ==
  \/ \E tx \in ServiceInputs : ServiceAddTransfer(tx) /\ UNCHANGED lockVars
  \/ \E k \in ServiceKeys, w \in ServiceWitnesses : AddWitness(k, w) /\ UNCHANGED lockVars
  \/ LoopStart(1) /\ UNCHANGED lockVars
  \/ LoopSubmit(1) /\ UNCHANGED lockVars
  \/ LoopMark(1) /\ UNCHANGED lockVars
  \/ LoopToCheck(1) /\ UNCHANGED lockVars
  \/ LoopCheck(1) /\ UNCHANGED lockVars
  \/ LoopAct(1) /\ UNCHANGED lockVars
  \/ LoopOverwrite(1) /\ UNCHANGED lockVars
  \/ LoopToSettle(1) /\ UNCHANGED lockVars
  \/ LoopSettle(1) /\ UNCHANGED lockVars
  \/ LoopTickEnd(1) /\ UNCHANGED lockVars

SpecLoop == InitService /\ [][NextLoop]_vars

\* The service with its one loop and one transfer.
NextLoopOne ==
  \/ \E tx \in ContendedInputs : ServiceAddTransfer(tx) /\ UNCHANGED lockVars
  \/ \E tx \in ContendedInputs, w \in ContendedWitnesses :
       AddWitness(KeyOf(tx), w) /\ UNCHANGED lockVars
  \/ LoopStart(1) /\ UNCHANGED lockVars
  \/ LoopSubmit(1) /\ UNCHANGED lockVars
  \/ LoopMark(1) /\ UNCHANGED lockVars
  \/ LoopToCheck(1) /\ UNCHANGED lockVars
  \/ LoopCheck(1) /\ UNCHANGED lockVars
  \/ LoopAct(1) /\ UNCHANGED lockVars
  \/ LoopOverwrite(1) /\ UNCHANGED lockVars
  \/ LoopToSettle(1) /\ UNCHANGED lockVars
  \/ LoopSettle(1) /\ UNCHANGED lockVars
  \/ LoopTickEnd(1) /\ UNCHANGED lockVars

\* The step the loop takes next: the scheduled task always has one.
LoopStep ==
  /\ \/ LoopStart(1)
     \/ LoopSubmit(1)
     \/ LoopMark(1)
     \/ LoopToCheck(1)
     \/ LoopCheck(1)
     \/ LoopAct(1)
     \/ LoopOverwrite(1)
     \/ LoopToSettle(1)
     \/ LoopSettle(1)
     \/ LoopTickEnd(1)
  /\ UNCHANGED lockVars

\* A query of the loop during which the connection holds.
StartComplete == LoopStart(1) /\ ~last'.cut /\ UNCHANGED lockVars
ToCheckComplete == LoopToCheck(1) /\ ~last'.cut /\ UNCHANGED lockVars
ToSettleComplete == LoopToSettle(1) /\ ~last'.cut /\ UNCHANGED lockVars

\* A Submit of the loop for the transfer of key k during which no remote call
\* fails and the balance is read.
SubmitUndisturbed(k) ==
  /\ queue[1] # <<>>
  /\ KeyOf(Head(queue[1])) = k
  /\ LoopSubmit(1)
  /\ dlast'.rpc.fail = "none"
  /\ dlast'.rpc.balance # "malformed"
  /\ UNCHANGED lockVars

\* A Check of the loop for the transfer of key k in which no remote call fails
\* and the chain has decided on the transfer's submission: it is settled, or
\* the submission's transaction has its receipt.
CheckDecided(k) ==
  /\ queue[1] # <<>>
  /\ KeyOf(Head(queue[1])) = k
  /\ LoopCheck(1)
  /\ ~dlast'.rpc.settlesFails
  /\ \A h \in ActionHashes : dlast'.rpc.receipt[h] # "Unavailable"
  /\ \/ dlast'.rpc.settleHeight > 0
     \/ dlast'.rpc.receipt[Head(queue[1]).txHash] = "OK"
  /\ UNCHANGED lockVars

\* The loop runs tick after tick; the storage calls and the remote calls for a
\* transfer do not fail for ever, and the chain decides on a submission in the
\* end.
SpecLoopFair ==
  /\ InitService
  /\ [][NextLoopOne]_vars
  /\ WF_vars(LoopStep)
  /\ SF_vars(StartComplete) /\ SF_vars(ToCheckComplete) /\ SF_vars(ToSettleComplete)
  /\ \A tx \in ContendedInputs :
       SF_vars(SubmitUndisturbed(KeyOf(tx))) /\ SF_vars(CheckDecided(KeyOf(tx)))

-----------------------------------------------------------------------------
(* The claims. *)

\* The columns AddTransfer writes from the event.
SameEvent(r, tx) ==
  /\ r.sender = tx.sender
  /\ r.recipient = tx.recipient
  /\ r.amount = tx.amount
  /\ r.blockHeight = tx.blockHeight
  /\ r.txHash = tx.txHash

\* The keys of the transfers of a query result, in its order.
RowKeys(rows) == [i \in 1..Len(rows) |-> KeyOf(rows[i])]

\* The result lists no key twice.
NoRepeat(ks) == \A i, j \in 1..Len(ks) : i # j => ks[i] # ks[j]

\* The result is ascending in creationTime (oldest first).
OldestFirst(ks) ==
  \A i, j \in 1..Len(ks) : i < j => store[ks[i]].creationTime <= store[ks[j]].creationTime

Range(f) == {f[i] : i \in DOMAIN f}

(* C1: an AddTransfer that passes validation (index, positive amount)       *)
(* returns success whether or not its key is stored; it adds the row of a  *)
(* new key with the fields of the call and status new; it leaves every     *)
(* stored row as it is, so a duplicate overwrites no field and does not    *)
(* reset the status; and no recorder operation ever removes a row or       *)
(* changes the event columns of one: the row of a key keeps the fields of  *)
(* the first call.                                                         *)
C1_AddTransferIdempotent ==
  /\ [][ \A tx \in TransferInputs :
           (last'.tx = tx /\ AddTransfer(tx) /\ validateID(tx.index) = "nil" /\ tx.amount > 0) =>
              /\ last'.err = "nil"
              /\ DOMAIN store' = DOMAIN store \cup {KeyOf(tx)}
              /\ \A k \in DOMAIN store : store'[k] = store[k]
              /\ KeyOf(tx) \notin DOMAIN store =>
                   /\ SameEvent(store'[KeyOf(tx)], tx)
                   /\ store'[KeyOf(tx)].status = TransferNew ]_vars
  /\ [][ \A k \in DOMAIN store :
           /\ k \in DOMAIN store'
           /\ SameEvent(store'[k], store[k]) ]_vars

\* C1's case: a duplicate with other fields was accepted after the row had
\* left status new, and the row holds the first call's fields.
C1_Witness ==
  /\ last.op = "AddTransfer"
  /\ last.err = "nil"
  /\ last.affected = 0
  /\ ~SameEvent(store[KeyOf(last.tx)], last.tx)
  /\ store[KeyOf(last.tx)].status = TransferSettled

\* the status changes the design lists
DesignEdges ==
  { <<"new", "submitted">>, <<"submitted", "confirmed">>, <<"confirmed", "settled">>,
    <<"submitted", "failed">>, <<"confirmed", "failed">> }

\* Every status change of a step is one of the edges.
StatusChangesIn(edges) ==
  \A k \in DOMAIN store :
    (k \in DOMAIN store' /\ store'[k].status # store[k].status)
       => <<store[k].status, store'[k].status>> \in edges

(* C2 as stated: every status change is one of new->submitted,             *)
(* submitted->confirmed, confirmed->settled, submitted->failed,            *)
(* confirmed->failed.                                                      *)
C2_DesignEdgesOnly == [][StatusChangesIn(DesignEdges)]_vars

\* What a status mutator with the source status `from` and the target `to`
\* must do with the transfer tx.
ConditionalUpdate(tx, from, to) ==
  IF KeyOf(tx) \in DOMAIN store /\ store[KeyOf(tx)].status = from
    THEN /\ last'.err = "nil"
         /\ DOMAIN store' = DOMAIN store
         /\ store'[KeyOf(tx)].status = to
         /\ \A k \in DOMAIN store \ {KeyOf(tx)} : store'[k] = store[k]
    ELSE /\ last'.err # "nil"
         /\ store' = store

(* C3: the status mutators of the recorder are ConfirmTransfer (source     *)
(* status new) and SettleTransfer (source status confirmed).  Called on a  *)
(* transfer that is absent or not in the source status, each returns an    *)
(* error and leaves every row unchanged; called on a transfer in the       *)
(* source status, each updates that one row and returns success.           *)
C3_ConditionalUpdates ==
  [][ \A tx \in MutatorInputs :
        /\ (last'.tx = tx /\ ConfirmTransfer(tx)) =>
             ConditionalUpdate(tx, TransferNew, SubmissionConfirmed)
        /\ (last'.tx = tx /\ SettleTransfer(tx)) =>
             ConditionalUpdate(tx, SubmissionConfirmed, TransferSettled)
    ]_vars

\* C3's case: a mutator was refused on a stored transfer that is not in its
\* source status.
C3_Witness ==
  /\ last.op = "SettleTransfer"
  /\ last.err # "nil"
  /\ KeyOf(last.tx) \in DOMAIN store
  /\ store[KeyOf(last.tx)].status = TransferNew

(* C4: a stored transfer has a NULL id if and only if its status is new.   *)
C4_NullIdIffNew ==
  \A k \in DOMAIN store : (store[k].id = NULL) <=> (store[k].status = TransferNew)

\* C4's case: a row that left new with the id of a transfer whose id was
\* never set (the zero hash, which is not NULL) beside a row still new.
C4_Witness ==
  /\ \E k \in DOMAIN store :
       store[k].status = TransferSettled /\ store[k].id = ZeroHash
  /\ \E k \in DOMAIN store : store[k].status = TransferNew /\ store[k].id = NULL

\* The addresses of the witnesses of a list of signatures.
Signers(ws) == {ws[i].addr : i \in 1..Len(ws)}

\* The strict two-thirds rule over the signers S and the active set W.
Quorum(S, W) == 3 * Cardinality(S \cap W) > 2 * Cardinality(W)

\* A Submit or SpeedUp during which no remote call failed.
UndisturbedSubmission ==
  /\ dlast.op \in {"Submit", "SpeedUp"}
  /\ dlast.rpc.fail = "none"
  /\ dlast.rpc.balance # "malformed"

(* C5 as stated: with the refreshed active set W and the signers S of the  *)
(* signatures handed in, the contract call is issued if and only if        *)
(* 3*|S \cap W| > 2*|W|; otherwise ErrInsufficientWitnesses is returned    *)
(* and no call is issued.                                                  *)
C5_CallIffQuorum ==
  UndisturbedSubmission =>
    /\ dlast.call.issued <=> Quorum(Signers(dlast.sigs), witnesses)
    /\ ~Quorum(Signers(dlast.sigs), witnesses) => dlast.err = "insufficient"

\* The signatures of the witnesses of S, concatenated in ascending order of address.
RECURSIVE AscendingPayload(_)
AscendingPayload(S) ==
  IF S = {} THEN <<>>
  ELSE LET a == CHOOSE x \in S : \A y \in S : x <= y
       IN Signature(a) \o AscendingPayload(S \ {a})

(* C6 as stated: whatever the order of the signatures handed in, the       *)
(* payload of an accepted submission is the concatenation of exactly the   *)
(* signatures of S \cap W, ascending by witness address.                   *)
C6_PayloadAscending ==
  (dlast.op \in {"Submit", "SpeedUp"} /\ dlast.call.issued) =>
     dlast.call.payload = AscendingPayload(Signers(dlast.sigs) \cap witnesses)

(* C7 as stated: the first-submission path broadcasts at most one contract *)
(* call for a transfer, also when executions of the loop overlap or a      *)
(* broadcast is not followed by the recording of the submission.           *)
C7_AtMostOneBroadcast == \A k \in Keys : sent[k] <= 1

\* the mutators that change the status of a transfer
StatusMutators == {"MarkSubmitted", "MarkConfirmed", "MarkSettled", "MarkFailed"}

\* The successful ones among the calls of a mutator for a key.
Wins(k, op) == SelectSeq(attempts[k], LAMBDA a : a.op = op /\ a.err = "nil")

\* The statuses a mutator moves a transfer from, and the status it moves it to.
FromOf(op) ==
  CASE op = "MarkSubmitted" -> {TransferNew}
    [] op = "MarkConfirmed" -> {TransferSubmitted}
    [] op = "MarkSettled" -> {SubmissionConfirmed}
    [] op = "MarkFailed" -> {TransferSubmitted, SubmissionConfirmed}
ToOf(op) ==
  CASE op = "MarkSubmitted" -> TransferSubmitted
    [] op = "MarkConfirmed" -> SubmissionConfirmed
    [] op = "MarkSettled" -> TransferSettled
    [] op = "MarkFailed" -> TransferFailed

\* The row of key k holds what its successful updates wrote.
HoldsTheWinners(k) ==
  /\ \A op \in StatusMutators : Len(Wins(k, op)) <= 1
  /\ k \in DOMAIN store =>
       /\ store[k].status \in Statuses
       /\ IF Len(Wins(k, "MarkSubmitted")) = 0
            THEN /\ store[k].status = TransferNew
                 /\ store[k].id = NULL
                 /\ submission[k] = NoSubmission
            ELSE /\ store[k].status # TransferNew
                 /\ store[k].id = Wins(k, "MarkSubmitted")[1].id
                 /\ submission[k] = Wins(k, "MarkSubmitted")[1].sub
       /\ store[k].status = SubmissionConfirmed => Len(Wins(k, "MarkConfirmed")) = 1
       /\ store[k].status = TransferSettled => Len(Wins(k, "MarkSettled")) = 1
       /\ store[k].status = TransferFailed => Len(Wins(k, "MarkFailed")) = 1

\* The step in which a mutator was called for key k did what a conditional
\* update does.
UpdateOrStale(k) ==
  attempts'[k] # attempts[k] =>
    IF attempts'[k][Len(attempts'[k])].err = "nil"
      THEN /\ store[k].status \in FromOf(attempts'[k][Len(attempts'[k])].op)
           /\ store'[k].status = ToOf(attempts'[k][Len(attempts'[k])].op)
           /\ \A j \in DOMAIN store \ {k} : store'[j] = store[j] /\ submission'[j] = submission[j]
      ELSE /\ attempts'[k][Len(attempts'[k])].err = ErrStaleState
           /\ store' = store
           /\ submission' = submission

(* C8: when executions of the loop overlap and attempt the same transition  *)
(* on one transfer (MarkSubmitted, MarkConfirmed, MarkSettled or            *)
(* MarkFailed), at most one of the conditional updates succeeds; every      *)
(* other one returns StaleState and changes nothing; the row holds the      *)
(* status of its last successful update and the id, nonce, gasPrice and     *)
(* txHash of the one successful MarkSubmitted, and is new with a NULL id    *)
(* while there is none; every status is one of the five, and every status   *)
(* change is an edge of the state machine.                                  *)
C8_OneUpdateWins ==
  /\ [](\A k \in Keys : HoldsTheWinners(k))
  /\ [][\A k \in Keys : UpdateOrStale(k)]_vars
  /\ [][StatusChangesIn(DesignEdges)]_vars

\* C8's case: two executions called MarkSubmitted for one transfer with
\* different ids and nonces and two called MarkConfirmed for it; the second
\* of each returned StaleState, and the row holds what the first
\* MarkSubmitted wrote.
C8_Witness ==
  \E k \in Keys :
    /\ Len(attempts[k]) = 4
    /\ attempts[k][1].op = "MarkSubmitted" /\ attempts[k][1].err = "nil"
    /\ attempts[k][2].op = "MarkSubmitted" /\ attempts[k][2].err = ErrStaleState
    /\ attempts[k][1].id # attempts[k][2].id
    /\ attempts[k][1].sub.nonce # attempts[k][2].sub.nonce
    /\ attempts[k][3].op = "MarkConfirmed" /\ attempts[k][3].err = "nil"
    /\ attempts[k][4].op = "MarkConfirmed" /\ attempts[k][4].err = ErrStaleState
    /\ store[k].id = attempts[k][1].id
    /\ submission[k] = attempts[k][1].sub

\* The stored transfers a query for `status` has to return.
Due(status) == {k \in DOMAIN store : store[k].status = status /\ k[2] \in DOMAIN tokenPairs}

(* C9: TransfersToSubmit returns, without an error, exactly the stored     *)
(* transfers whose status is new and whose token is a key of the           *)
(* token-pair map, each once and each with status new; a transfer of an    *)
(* unmapped token is left out.  A call whose cursor stops before the last  *)
(* row returns fewer, with no error.                                       *)
C9_ToSubmitNewAndMapped ==
  last.op = "TransfersToSubmit" =>
    /\ last.err = "nil"
    /\ NoRepeat(RowKeys(last.rows))
    /\ Range(RowKeys(last.rows)) = Due(TransferNew)
    /\ \A i \in 1..Len(last.rows) :
         /\ last.rows[i].status = TransferNew
         /\ last.rows[i].token \in DOMAIN tokenPairs
         /\ last.rows[i].coToken = tokenPairs[last.rows[i].token]

(* C10 as stated: TransfersToSettle returns every stored transfer whose     *)
(* status is submitted and no transfer in any other status, oldest first   *)
(* by creationTime.                                                        *)
C10_ToSettleSubmitted ==
  last.op = "TransfersToSettle" =>
    /\ last.err = "nil"
    /\ NoRepeat(RowKeys(last.rows))
    /\ Range(RowKeys(last.rows)) = {k \in DOMAIN store : store[k].status = "submitted"}
    /\ \A i \in 1..Len(last.rows) : last.rows[i].status = "submitted"
    /\ OldestFirst(RowKeys(last.rows))

\* The block heights of the stored transfers that are not failed.
NonFailedHeights == {store[k].blockHeight : k \in {j \in DOMAIN store : store[j].status # "failed"}}

(* C11: TipHeight returns, without an error, the maximum blockHeight over   *)
(* the stored transfers whose status is not failed, and 0 when there is no  *)
(* such row.  The recorder stores no failed row, so these are all the rows. *)
(* A call whose row.Scan fails returns 0 over a table that holds rows.      *)
C11_TipHeightIsMax ==
  last.op = "TipHeight" =>
    /\ last.err = "nil"
    /\ NonFailedHeights = {} => last.height = 0
    /\ NonFailedHeights # {} => last.height \in NonFailedHeights
    /\ \A h \in NonFailedHeights : h <= last.height

(* C12: every stored transfer has amount > 0; AddTransfer with an amount    *)
(* that is not positive returns an error and leaves the table unchanged;    *)
(* no operation removes a row or changes the amount of one.                 *)
C12_AmountPositive ==
  /\ [](\A k \in DOMAIN store : store[k].amount > 0)
  /\ [][ \A tx \in TransferInputs :
           (last'.tx = tx /\ AddTransfer(tx) /\ tx.amount <= 0) =>
              (last'.err # "nil" /\ store' = store) ]_vars
  /\ [][ \A k \in DOMAIN store :
           k \in DOMAIN store' /\ store'[k].amount = store[k].amount ]_vars

\* C12's case: an AddTransfer with amount 0 for a stored key was refused, and
\* the row keeps its amount.
C12_Witness ==
  /\ last.op = "AddTransfer"
  /\ last.tx.amount = 0
  /\ last.err = "amount"
  /\ KeyOf(last.tx) \in DOMAIN store
  /\ store[KeyOf(last.tx)].amount = 1

(* C16 as stated: every successful SpeedUp returns a gasPrice strictly      *)
(* higher than the gasPrice of the transfer's previous submission.          *)
C16_SpeedUpRaisesGasPrice ==
  (dlast.op = "SpeedUp" /\ dlast.err = "nil") => dlast.gasPrice > dlast.transfer.gasPrice

(* C17: the nonce of the contract call is the account's nonce plus 1 on a   *)
(* Submit and transfer.nonce on a SpeedUp, and a successful call returns    *)
(* the nonce it used.                                                       *)
C17_NonceUsed ==
  (dlast.op \in {"Submit", "SpeedUp"} /\ dlast.call.issued) =>
    /\ dlast.op = "Submit" => dlast.call.nonce = dlast.rpc.nonce + 1
    /\ dlast.op = "SpeedUp" => dlast.call.nonce = dlast.transfer.nonce
    /\ dlast.err = "nil" => dlast.nonce = dlast.call.nonce

\* C17's case: a SpeedUp succeeded at the transfer's nonce, which is not the
\* account's nonce plus 1.
C17_Witness ==
  /\ dlast.op = "SpeedUp"
  /\ dlast.err = "nil"
  /\ dlast.nonce = dlast.transfer.nonce
  /\ dlast.nonce # dlast.rpc.nonce + 1

\* The classification of C19, with the receipt looked up for the hash of the
\* transfer's last submission.
ClassifiedByOwnReceipt(transfer, out) ==
  IF out.settlesFails THEN "Unknown"
  ELSE IF out.settleHeight > 0 THEN "Settled"
  ELSE IF out.receipt[transfer.txHash] = "Unavailable" THEN "Unknown"
  ELSE IF out.receipt[transfer.txHash] = "OK" THEN "Rejected"
  ELSE IF out.receipt[transfer.txHash] = "NotFound" THEN "NeedSpeedUp"
  ELSE "NotConfirmed"

(* C19 as stated: Check returns Settled on a non-zero settle height, else   *)
(* Rejected when the lookup of the transfer's last submission returns a     *)
(* receipt, else NeedSpeedUp when that transaction is not found, else       *)
(* NotConfirmed, and Unknown with the error when a remote call fails.       *)
C19_CheckClassifies ==
  dlast.op = "Check" =>
    /\ dlast.status = ClassifiedByOwnReceipt(dlast.transfer, dlast.rpc)
    /\ dlast.status = "Unknown" <=> dlast.err # "nil"

\* the active witnesses the witness-list contract holds
ActiveOnChain ==
  {chainItems[i].addr : i \in {j \in 1..Len(chainItems) : chainItems[j].active}}

\* the page of the item at position i of the list
PageOf(i) == (i - 1) \div limit + 1

\* The active witnesses the pages of a call answered, each page read from
\* the list as its remote call found it.
ReadFrom(lists) ==
  { lists[PageOf(i)][i].addr :
      i \in {j \in 1..ChainLen : lists[PageOf(j)][j].active} }

\* The sets of active witnesses a call can have read, page by page, that
\* found the list as `before` at its first page and left it as `after`.
ReadBetween(before, after) ==
  { ReadFrom(lists) :
      lists \in { l \in Lists(before) : l[Len(l)] = after } }

\* the entries of a list of signatures whose witness is in W
EntriesOf(ws, W) == Cardinality({i \in 1..Len(ws) : ws[i].addr \in W})

(* C20: a Submit or SpeedUp whose refresh fails returns a non-critical      *)
(* error, issues no contract call and leaves the cache; every other one     *)
(* replaces the cache by the active witnesses its page calls read from the  *)
(* chain during the call, on every page of the list, and tests the quorum   *)
(* of the entries handed in against that set only; Check leaves the cache   *)
(* as it is.                                                                *)
C20_RefreshBeforeQuorum ==
  [][ /\ (dlast.op = "none" /\ dlast'.op \in {"Submit", "SpeedUp"}) =>
           IF dlast'.rpc.fail = "refresh"
             THEN /\ dlast'.err = "noncritical"
                  /\ ~dlast'.call.issued
                  /\ witnesses' = witnesses
             ELSE /\ witnesses' \in ReadBetween(chainItems, chainItems')
                  /\ dlast'.err = "insufficient" <=>
                       3 * EntriesOf(dlast'.sigs, witnesses') <= 2 * Cardinality(witnesses')
                  /\ dlast'.err = "insufficient" => ~dlast'.call.issued
      /\ (dlast.op = "none" /\ dlast'.op = "Check") => witnesses' = witnesses
    ]_vars

\* C20's case: a call read the witnesses 1 and 2 on the first page and no
\* witness on the second, and issued the contract call on the two signatures
\* it was handed; the witness 1 is no longer active on the chain.
C20_Witness ==
  /\ dlast.op = "Submit"
  /\ dlast.call.issued
  /\ witnesses = {1, 2}
  /\ Len(dlast.sigs) = 2
  /\ ActiveOnChain = {2}

\* the threads between Lock and Unlock
Writing == {t \in Threads : th[t].pc \in {"submit", "Unlock"}}

\* the threads between RLock and RUnlock, in Check or in Address
Reading == {t \in Threads : th[t].pc \in {"check", "address", "RUnlock"}}

\* the threads inside Check
Checking == {t \in Reading : th[t].op = "Check"}

(* C18: at most one thread is inside Submit or SpeedUp, between Lock and    *)
(* Unlock, and none is while a thread is inside Check, between RLock and    *)
(* RUnlock; the cached witness set changes only in a step of a thread that  *)
(* holds the exclusive lock.                                                *)
C18_ExclusiveSubmit ==
  /\ [](Cardinality(Writing) <= 1)
  /\ [](Writing # {} => Checking = {})
  /\ [][witnesses' # witnesses => (mu.w /\ \E t \in Writing : th[t].pc = "submit")]_vars

\* C18's case: two threads are inside Check at the same time while a third
\* is blocked in Lock, waiting for them to leave, and the cache has been
\* written.
C18_Witness ==
  /\ Cardinality(Checking) = 2
  /\ \E t \in Threads : th[t].pc = "Drain"
  /\ witnesses # {}

\* The loop holds the transfer of key k at the head of its queue.
AtHead(k) == queue[1] # <<>> /\ KeyOf(Head(queue[1])) = k

\* The step in which the loop calls Submit for the transfer of key k.
SubmitStep(k) ==
  /\ pc[1] = "submit"
  /\ AtHead(k)
  /\ <<pc, queue>>' # <<pc, queue>>

\* The step in which the loop acts on the status s that Check returned for the
\* transfer of key k.
ActStep(k, s) ==
  /\ pc[1] = "act"
  /\ AtHead(k)
  /\ ret[1].status = s
  /\ pc'[1] # "act"

\* The step of the settle phase for the transfer of key k.
SettleStep(k) ==
  /\ pc[1] = "settle"
  /\ AtHead(k)
  /\ queue'[1] = Tail(queue[1])

C14_RejectedIsFinal ==
  [][ \A k \in DOMAIN store :
        /\ ActStep(k, "Rejected") =>
             /\ store[k].status = TransferSubmitted
             /\ store'[k].status = TransferFailed
             /\ last'.err = "nil"
        /\ store[k].status = TransferFailed =>
             /\ store'[k] = store[k]
             /\ submission'[k] = submission[k]
             /\ ~SubmitStep(k)
             /\ ~(pc[1] \in {"check", "act", "overwrite"} /\ AtHead(k)) ]_vars

\* C14's case: a transfer is failed, and a later check phase speeds up the
\* other transfer.
C14_Witness ==
  /\ \E k \in DOMAIN store : store[k].status = TransferFailed
  /\ pc[1] = "overwrite"
  /\ dlast.op = "SpeedUp"
  /\ store[KeyOf(Head(queue[1]))].status = TransferSubmitted

(* C15 as stated: a Submit of the submit phase that returns                 *)
(* ErrInsufficientWitnesses or a non-critical error leaves the table as it  *)
(* is, the transfer in new, issues no contract call for it, and the loop    *)
(* goes on with the rest of the queue; and the next tick offers the         *)
(* transfer to Submit again: it is in the queue the tick starts with.       *)
C15_FailedSubmitLeavesNew ==
  [][ /\ \A k \in DOMAIN store :
           (SubmitStep(k) /\ dlast'.err \in {"insufficient", "noncritical"}) =>
             /\ dlast'.op = "Submit"
             /\ store' = store
             /\ store[k].status = TransferNew
             /\ ~dlast'.call.issued
             /\ pc'[1] = "submit"
             /\ queue'[1] = Tail(queue[1])
      /\ (/\ pc[1] = "idle"
          /\ pc'[1] = "submit"
          /\ dlast.op = "Submit"
          /\ dlast.err \in {"insufficient", "noncritical"}
          /\ store[KeyOf(dlast.transfer)].status = TransferNew) =>
           KeyOf(dlast.transfer) \in Range(RowKeys(queue'[1])) ]_vars

(* C21 as stated: no transfer with tidx >= 2^63 - 1 is stored, and          *)
(* AddTransfer with tidx = 2^63 - 1 aborts with the overflow condition      *)
(* before any insert.                                                       *)
C21_NoOverflowPersisted ==
  /\ \A k \in DOMAIN store : k[3] < MaxInt64
  /\ (last.op = "AddTransfer" /\ last.tx.index = MaxInt64) => last.err = "panic"

(* C22 as stated: whatever list of signatures is handed to Submit or        *)
(* SpeedUp, a witness listed more than once included, the number of         *)
(* signatures counted towards the quorum is at most the size of the         *)
(* refreshed active witness set, and the payload holds at most one          *)
(* signature of each active witness.                                        *)
C22_EachWitnessOnce ==
  (dlast.op \in {"Submit", "SpeedUp"} /\ dlast.rpc.fail # "refresh") =>
    /\ numOfValidSignatures(witnesses, dlast.sigs) <= Cardinality(witnesses)
    /\ dlast.call.issued =>
         Len(dlast.call.payload) <= Len(AscendingPayload(witnesses))

\* The transfer of key k is stored, its token is mapped and its signatures are
\* a quorum of the active witnesses.
ReadyToRelay(k) ==
  /\ k \in DOMAIN store
  /\ k[2] \in DOMAIN tokenPairs
  /\ 3 * Cardinality(sigs[k] \cap ActiveOnChain) > 2 * Cardinality(ActiveOnChain)

\* The transfer of key k is in a terminal status.
Terminal(k) ==
  /\ k \in DOMAIN store
  /\ store[k].status \in {TransferSettled, TransferFailed}

(* C23: with the loop scheduled tick after tick, remote calls that do not   *)
(* fail for ever and a chain that decides on every submission, every stored *)
(* transfer of a mapped token that holds the signatures of a quorum of the  *)
(* active witnesses reaches settled or failed: no queue leaves it out for   *)
(* ever.                                                                    *)
C23_EventuallyTerminal ==
  \A k \in ServiceKeys : ReadyToRelay(k) ~> Terminal(k)

=============================================================================
